---------------------------- MODULE Spec2Model ----------------------------
(***************************************************************************)
(* Day One import subsystem of jrnl: the persistent link index             *)
(* (jrnl/plugins/dayone_index.py) and the import pipeline                  *)
(* (jrnl/plugins/dayone_json_importer.py).                                 *)
(*                                                                         *)
(* Python dicts are functions whose DOMAIN is the set of keys present, so  *)
(* d["k"] on a missing key is a KeyError and d.get("k") is None.  Texts    *)
(* are sequences of lexemes (one bracket, the link literal, a run of uuid  *)
(* characters, or a run of other characters); Flatten gives the string.    *)
(***************************************************************************)
EXTENDS Integers, Sequences, FiniteSets, TLC

VARIABLES
    file,     \* dayone_index.json in the configuration directory
    idx,      \* the DayOneIndex object of the running process
    now,      \* the wall clock: the value the next datetime.now() returns
    out,      \* the last call: operation, arguments, exception, messages
    imp,      \* the import_ call in progress (position and locals)
    journal   \* calls the journal received during the current import_

vars == <<file, idx, now, out, imp, journal>>

-----------------------------------------------------------------------------
(* Bounds of the model *)

MaxTime == 3
MaxSegs == 2

-----------------------------------------------------------------------------
(* Values *)

None == "None"

\* datetime.min, the value __init__ gives last_modified
DatetimeMin == 0

ModeUSE == "USE"
ModeBUILD == "BUILD"

\* Sequence helpers
RECURSIVE Flatten(_)
Flatten(s) == IF s = <<>> THEN "" ELSE Head(s) \o Flatten(Tail(s))

RECURSIVE Concat(_)
Concat(ss) == IF ss = <<>> THEN <<>> ELSE Head(ss) \o Concat(Tail(ss))

SeqsUpTo(S, n) == UNION {[1..k -> S] : k \in 0..n}

\* dict.get(key): the value, or None when the key is missing
Get(d, k) == IF k \in DOMAIN d THEN d[k] ELSE None

\* Python truthiness of a str-or-None value
Truthy(v) == v # None /\ v # ""


-----------------------------------------------------------------------------
(* Dates.  A datetime with a UTC offset is [y, mo, d, h, off]; an ISO 8601   *)
(* string is the tuple of its fields <<year, month, day, hour, designator>>, *)
(* the designator being "Z" or "+HH:00" / "-HH:00".                          *)

Pad2(n) == IF n < 10 THEN "0" \o ToString(n) ELSE ToString(n)

Pad4(n) == IF n < 1000 THEN "0" \o ToString(n) ELSE ToString(n)

OffsetStr(off) ==
    IF off < 0 THEN "-" \o Pad2(0 - off) \o ":00" ELSE "+" \o Pad2(off) \o ":00"

Offsets == {0 - 5, 0 - 4, 0, 9}

\* datetime.isoformat() of an aware datetime
Isoformat(dt) == <<dt.y, dt.mo, dt.d, dt.h, OffsetStr(dt.off)>>

\* datetime.fromisoformat(): parses the fields back
FromIsoformat(s) ==
    [y |-> s[1], mo |-> s[2], d |-> s[3], h |-> s[4],
     off |-> CHOOSE n \in Offsets : OffsetStr(n) = s[5]]

\* creationDate.replace("Z", "+00:00")
ReplaceZ(s) == [s EXCEPT ![5] = IF s[5] = "Z" THEN "+00:00" ELSE s[5]]

\* timeZone.replace("\\", ""): Day One escapes the slash of a zone name
StripBackslash(tz) ==
    IF tz = "America\\/New_York" THEN "America/New_York"
    ELSE IF tz = "Asia\\/Tokyo" THEN "Asia/Tokyo"
    ELSE tz

DaysIn(y, mo) ==
    IF mo = 2 THEN (IF y % 4 = 0 THEN 29 ELSE 28)
    ELSE IF mo \in {4, 6, 9, 11} THEN 30 ELSE 31

PrevDay(dt) ==
    IF dt.d > 1 THEN [dt EXCEPT !.d = dt.d - 1]
    ELSE IF dt.mo > 1 THEN [dt EXCEPT !.mo = dt.mo - 1, !.d = DaysIn(dt.y, dt.mo - 1)]
    ELSE [dt EXCEPT !.y = dt.y - 1, !.mo = 12, !.d = 31]

NextDay(dt) ==
    IF dt.d < DaysIn(dt.y, dt.mo) THEN [dt EXCEPT !.d = dt.d + 1]
    ELSE IF dt.mo < 12 THEN [dt EXCEPT !.mo = dt.mo + 1, !.d = 1]
    ELSE [dt EXCEPT !.y = dt.y + 1, !.mo = 1, !.d = 1]

\* UTC offset of a zone in the month of the date (daylight saving by month)
ZoneOffset(tz, mo) ==
    IF tz = "America/New_York" THEN (IF mo \in 4..10 THEN 0 - 4 ELSE 0 - 5)
    ELSE IF tz = "Asia/Tokyo" THEN 9
    ELSE 0

\* jrnl.plugins.util.localize: the same instant as local time of the zone
Localize(dt, tz) ==
    LET o  == ZoneOffset(tz, dt.mo)
        hh == dt.h - dt.off + o
    IN  IF hh < 0 THEN [PrevDay(dt) EXCEPT !.h = hh + 24, !.off = o]
        ELSE IF hh > 23 THEN [NextDay(dt) EXCEPT !.h = hh - 24, !.off = o]
        ELSE [dt EXCEPT !.h = hh, !.off = o]

\* The date without zero padding
StrftimeYmdNoPad(dt) == ToString(dt.y) \o "/" \o ToString(dt.mo) \o "/" \o ToString(dt.d)

\* format(date, "%Y/%m/%d")
StrftimeYmd(dt) == Pad4(dt.y) \o "/" \o Pad2(dt.mo) \o "/" \o Pad2(dt.d)

\* The date both add_entries and _convert compute for a raw entry
EntryDate(entry) ==
    LET date == FromIsoformat(ReplaceZ(entry.creationDate))
        tz   == Get(entry, "timeZone")
    IN  IF Truthy(tz) THEN Localize(date, StripBackslash(tz)) ELSE date

\* last_modified is a naive datetime: the clock reading, or datetime.min
IsoformatNaive(t) == "t" \o ToString(t)

FromIsoformatNaive(s) == CHOOSE t \in 0..(MaxTime + 2) : IsoformatNaive(t) = s

-----------------------------------------------------------------------------
(* Messages *)

\* class DayOneIndexMsg: the members the enum defines
DayOneIndexMsg ==
    {"IndexFileMissing", "IndexFileNotFound", "IndexFileMalformed", "IndexLoadError",
     "IndexNotFound", "IndexCreated", "IndexUpdated", "IndexUpToDate",
     "IndexClearConfirm", "IndexCleared", "IndexNotUsable", "InvalidJournalName"}

\* class DayOneMsg
DayOneMsg ==
    {"NoInputPath", "InvalidJSON", "InvalidExport", "MediaNotFound", "MediaProcessed",
     "ProcessingEntry", "Continue"}

\* Message(text, style, params)
Message(text, style) == [text |-> text, style |-> style, count |-> 0 - 1, arg |-> ""]

MessageCount(text, style, n) == [text |-> text, style |-> style, count |-> n, arg |-> ""]

\* jrnl.prompt.yesno: shows the question with its default and reads the answer;
\* the default stands when the input is neither yes nor no (also when interrupted)
YesnoPrompt(text, default) ==
    [text |-> text, style |-> "PROMPT", count |-> 0 - 1,
     arg |-> IF default THEN "default=yes" ELSE "default=no"]

Yesno(answer, default) ==
    IF answer = "yes" THEN TRUE ELSE IF answer = "no" THEN FALSE ELSE default

Texts(msgs) == {msgs[i].text : i \in DOMAIN msgs}

-----------------------------------------------------------------------------
(* Export file names *)

Suffixes == {".json", ".b"}

\* Path.stem: the final component without its last suffix
Stem(name) ==
    IF Len(name) > 1 /\ name[Len(name)] \in Suffixes
    THEN SubSeq(name, 1, Len(name) - 1) ELSE name

\* urllib.parse.unquote on one lexeme: percent-escapes decode as UTF-8
UnquoteLexeme(x) ==
    IF x = "%F0%9F%A7%AA" THEN "<U+1F9EA>"
    ELSE IF x = "%41" THEN "A"
    ELSE x

Unquote(name) == [i \in DOMAIN name |-> UnquoteLexeme(name[i])]

\* The stem taken as it is, percent-escapes left in place
extract_journal_name_raw(export_path) == Flatten(Stem(export_path.name))

extract_journal_name(export_path) == Flatten(Unquote(Stem(export_path.name)))

-----------------------------------------------------------------------------
(* The index: DayOneIndex *)

EmptyMap == [u \in {} |-> None]

\* No index file on disk
NoFile == [kind |-> "absent", data |-> EmptyMap]

\* No DayOneIndex object (no command has run, or its construction failed)
NoIndex == [mode |-> "none", entries |-> EmptyMap, last_modified |-> DatetimeMin]

\* @dataclass IndexedEntry
IndexedEntry(uuid, date, journal_name, original_journal_name) ==
    [uuid |-> uuid, date |-> date, journal_name |-> journal_name,
     original_journal_name |-> original_journal_name]

\* DayOneIndex.is_usable
is_usable(ix, f) == f.kind # "absent" /\ Cardinality(DOMAIN ix.entries) > 0

\* DayOneIndex.__getitem__: [value, msgs]; value is None or an IndexedEntry
GetItemWarns(ix, f) == ~is_usable(ix, f) /\ ix.mode = ModeUSE

GetItemFound(ix, f, uuid) == ~GetItemWarns(ix, f) /\ uuid \in DOMAIN ix.entries

\* The stored form of one entry, as _save_index writes it
SavedEntry(entry) ==
    [date |-> Isoformat(entry.date),
     journal_name |-> entry.journal_name,
     orignal_journal_name |-> entry.original_journal_name]

\* DayOneIndex._save_index: the file it writes
SaveIndex(ix) ==
    [kind |-> "json",
     data |-> [last_modified |-> IsoformatNaive(ix.last_modified),
               entries |-> [u \in DOMAIN ix.entries |-> SavedEntry(ix.entries[u])]]]

RequiredEntryKeys == {"date", "journal_name", "orignal_journal_name"}

\* _load_index that swallows every error and carries on with no entries
LoadIndexLenient(f, mode) ==
    IF f.kind = "absent"
    THEN [entries |-> EmptyMap,
          msgs |-> IF mode = ModeUSE THEN <<Message("IndexNotFound", "WARNING")>> ELSE <<>>,
          exc |-> "none"]
    ELSE IF \/ f.kind # "json"
            \/ "entries" \notin DOMAIN f.data
            \/ \E u \in DOMAIN f.data.entries :
                  ~(RequiredEntryKeys \subseteq DOMAIN f.data.entries[u])
    THEN [entries |-> EmptyMap, msgs |-> <<>>, exc |-> "none"]
    ELSE [entries |-> [u \in DOMAIN f.data.entries |->
                         IndexedEntry(u,
                                      FromIsoformat(f.data.entries[u].date),
                                      f.data.entries[u].journal_name,
                                      f.data.entries[u].orignal_journal_name)],
          msgs |-> <<>>,
          exc |-> "none"]

\* DayOneIndex._load_index: [entries, msgs, exc]
LoadIndex(f, mode) ==
    IF f.kind = "absent"
    THEN [entries |-> EmptyMap,
          msgs |-> IF mode = ModeUSE THEN <<Message("IndexNotFound", "WARNING")>> ELSE <<>>,
          exc |-> "none"]
    ELSE IF f.kind # "json"
    THEN [entries |-> EmptyMap, msgs |-> <<>>, exc |-> "JrnlException:IndexLoadError"]
    ELSE IF \/ "entries" \notin DOMAIN f.data
            \/ \E u \in DOMAIN f.data.entries :
                  ~(RequiredEntryKeys \subseteq DOMAIN f.data.entries[u])
    THEN [entries |-> EmptyMap, msgs |-> <<>>, exc |-> "JrnlException:IndexFileMalformed"]
    ELSE [entries |-> [u \in DOMAIN f.data.entries |->
                         IndexedEntry(u,
                                      FromIsoformat(f.data.entries[u].date),
                                      f.data.entries[u].journal_name,
                                      f.data.entries[u].orignal_journal_name)],
          msgs |-> <<>>,
          exc |-> "none"]

\* DayOneIndex.__init__: [idx, msgs, exc]
NewIndex(f, mode) ==
    LET r == LoadIndex(f, mode)
    IN  [idx |-> IF r.exc = "none"
                 THEN [mode |-> mode, entries |-> r.entries, last_modified |-> DatetimeMin]
                 ELSE NoIndex,
         msgs |-> r.msgs,
         exc |-> r.exc]

\* Line 205 without its second test: an entry already present is not passed over
SkipEntryOverwrite(entries, uuid) == ~Truthy(uuid)

\* add_entries, line 205: the entries the loop passes over
SkipEntry(entries, uuid) == ~Truthy(uuid) \/ uuid \in DOMAIN entries

\* add_entries, lines 203-218: the loop; [entries, exc]
RECURSIVE AddLoop(_, _, _, _)
AddLoop(entries, raw, journal_name, orignal_journal_name) ==
    IF raw = <<>> THEN [entries |-> entries, exc |-> "none"]
    ELSE LET entry == Head(raw)
             uuid  == Get(entry, "uuid")
         IN  IF SkipEntry(entries, uuid)
             THEN AddLoop(entries, Tail(raw), journal_name, orignal_journal_name)
             ELSE IF "creationDate" \notin DOMAIN entry
             THEN [entries |-> entries, exc |-> "KeyError"]
             ELSE AddLoop((uuid :> IndexedEntry(uuid, EntryDate(entry), journal_name,
                                                orignal_journal_name)) @@ entries,
                          Tail(raw), journal_name, orignal_journal_name)

\* add_entries, line 222
IsCreated(count_before, count_after) == count_before = 0

\* add_entries, line 223
IsUpdated(count_before, count_after) == count_after > count_before

\* DayOneIndex.add_entries: [idx, write, msgs, exc]; write says _save_index ran
AddEntriesResult(ix, t, raw, journal_name, export_path) ==
    LET orignal_journal_name == extract_journal_name(export_path)
        count_before == Cardinality(DOMAIN ix.entries)
        r            == AddLoop(ix.entries, raw, journal_name, orignal_journal_name)
        count_after  == Cardinality(DOMAIN r.entries)
        is_created   == IsCreated(count_before, count_after)
        is_updated   == IsUpdated(count_before, count_after)
    IN  IF r.exc # "none"
        THEN [idx |-> [ix EXCEPT !.entries = r.entries], write |-> FALSE,
              msgs |-> <<>>, exc |-> r.exc]
        ELSE IF is_created \/ is_updated
        THEN [idx |-> [ix EXCEPT !.entries = r.entries, !.last_modified = t],
              write |-> TRUE,
              msgs |-> <<IF is_created
                         THEN MessageCount("IndexCreated", "NORMAL", count_after)
                         ELSE MessageCount("IndexUpdated", "NORMAL",
                                           count_after - count_before)>>,
              exc |-> "none"]
        ELSE [idx |-> ix, write |-> FALSE,
              msgs |-> <<Message("IndexUpToDate", "NORMAL")>>, exc |-> "none"]

\* clear() whose question defaults to yes
ClearResultDefaultYes(ix, t, answer) ==
    LET clear == Yesno(answer, TRUE)
    IN  [idx |-> IF clear
                 THEN [ix EXCEPT !.last_modified = t, !.entries = EmptyMap]
                 ELSE ix,
         write |-> clear,
         msgs |-> <<YesnoPrompt("IndexClearConfirm", TRUE)>>]

\* DayOneIndex.clear: [idx, write, msgs]
ClearResult(ix, t, answer) ==
    LET clear == Yesno(answer, FALSE)
    IN  [idx |-> IF clear
                 THEN [ix EXCEPT !.last_modified = t, !.entries = EmptyMap]
                 ELSE ix,
         write |-> clear,
         msgs |-> <<YesnoPrompt("IndexClearConfirm", FALSE)>>]

-----------------------------------------------------------------------------
(* resolve_links: the pattern                                               *)
(*   \[([^\]]+)\]\(dayone2://view\?Id=([a-zA-Z0-9-]+)\)                     *)
(* over a text of lexemes.                                                  *)

LinkLiteral == "dayone2://view?Id="

\* The lexemes made of the characters [a-zA-Z0-9-] only
UuidWords == {"U1", "U2", "See", "Hello", "a", "d", "x"}

\* Index of the first "]" at or after i, or 0
FirstClose(t, i) ==
    IF \E j \in i..Len(t) : t[j] = "]"
    THEN CHOOSE j \in i..Len(t) : t[j] = "]" /\ \A x \in i..(j - 1) : t[x] # "]"
    ELSE 0

\* Last index of the longest run of uuid characters that starts at k (k - 1: none)
WordRunEnd(t, k) ==
    CHOOSE m \in (k - 1)..Len(t) :
        /\ \A x \in k..m : t[x] \in UuidWords
        /\ (m = Len(t) \/ t[m + 1] \notin UuidWords)

\* The match of the pattern that starts at lexeme i: [ok, display, uuid, last]
MatchAt(t, i) ==
    LET j == FirstClose(t, i + 1)
        m == WordRunEnd(t, j + 3)
        no == [ok |-> FALSE, display |-> <<>>, uuid |-> "", last |-> i]
    IN  IF t[i] # "[" \/ j = 0 \/ j = i + 1 \/ j + 3 > Len(t) THEN no
        ELSE IF t[j + 1] # "(" \/ t[j + 2] # LinkLiteral THEN no
        ELSE IF m < j + 3 \/ m + 1 > Len(t) THEN no
        ELSE IF t[m + 1] # ")" THEN no
        ELSE [ok |-> TRUE, display |-> SubSeq(t, i + 1, j - 1),
              uuid |-> Flatten(SubSeq(t, j + 3, m)), last |-> m + 1]

\* replace_link: the text that replaces one match
replace_link(ix, f, t, i, match) ==
    IF ~GetItemFound(ix, f, match.uuid) THEN SubSeq(t, i, match.last)
    ELSE LET target == ix.entries[match.uuid]
         IN  <<"[[" \o target.journal_name \o "/" \o StrftimeYmd(target.date) \o "|"
               \o Flatten(match.display) \o "]]">>

\* re.sub from lexeme i on: [text, lookups]
RECURSIVE LinkSub(_, _, _, _)
LinkSub(ix, f, t, i) ==
    IF i > Len(t) THEN [text |-> <<>>, lookups |-> 0]
    ELSE LET match == MatchAt(t, i)
         IN  IF match.ok
             THEN LET rest == LinkSub(ix, f, t, match.last + 1)
                  IN  [text |-> replace_link(ix, f, t, i, match) \o rest.text,
                       lookups |-> rest.lookups + 1]
             ELSE LET rest == LinkSub(ix, f, t, i + 1)
                  IN  [text |-> <<t[i]>> \o rest.text, lookups |-> rest.lookups]

\* DayOneIndex.resolve_links: [text, msgs]; every lookup in an index that is
\* not usable (USE mode) prints the IndexNotUsable warning
resolve_links(ix, f, t) ==
    LET r == LinkSub(ix, f, t, 1)
    IN  [text |-> r.text,
         msgs |-> IF GetItemWarns(ix, f)
                  THEN [n \in 1..r.lookups |-> Message("IndexNotUsable", "WARNING")]
                  ELSE <<>>]

-----------------------------------------------------------------------------
(* DayOneJSONImporter._convert *)

\* date.strftime('%Y-%m-%d %H:%M:%S %p'), to the hour
StrftimeHeader(dt) ==
    Pad4(dt.y) \o "-" \o Pad2(dt.mo) \o "-" \o Pad2(dt.d) \o " " \o Pad2(dt.h)
    \o ":00:00 " \o (IF dt.h < 12 THEN "AM" ELSE "PM")

\* text.replace("\\!", "!").replace("\\.", ".").replace("\\n", "\n")
Unescape(text) ==
    [i \in DOMAIN text |->
        IF text[i] = "\\!" THEN "!"
        ELSE IF text[i] = "\\." THEN "."
        ELSE IF text[i] = "\\n" THEN "\n"
        ELSE text[i]]

Whitespace == {" ", "\n"}

\* str.strip()
RECURSIVE LStrip(_)
LStrip(text) ==
    IF text # <<>> /\ Head(text) \in Whitespace THEN LStrip(Tail(text)) ELSE text

RECURSIVE RStrip(_)
RStrip(text) ==
    IF text # <<>> /\ text[Len(text)] \in Whitespace
    THEN RStrip(SubSeq(text, 1, Len(text) - 1)) ELSE text

Strip(text) == RStrip(LStrip(text))

\* str.lower() of the first character of a tag
Lower(c) == IF c = "H" THEN "h" ELSE IF c = "N" THEN "n" ELSE c

\* str.replace(" ", "") on a tag
RECURSIVE RemoveSpaces(_)
RemoveSpaces(t) ==
    IF t = <<>> THEN <<>>
    ELSE IF Head(t) = " " THEN RemoveSpaces(Tail(t))
    ELSE <<Head(t)>> \o RemoveSpaces(Tail(t))

\* A tag is the sequence of its first character and the lexemes after it, the
\* empty string being <<>>.  (t[0].lower() + t[1:]).replace(" ", "")
NormalizeTag(t) == RemoveSpaces(<<Lower(Head(t))>> \o Tail(t))

\* " ".join(f"#{tag}" for tag in tags)
RECURSIVE JoinTags(_)
JoinTags(tags) ==
    IF tags = <<>> THEN ""
    ELSE IF Len(tags) = 1 THEN "#" \o Flatten(tags[1])
    ELSE "#" \o Flatten(tags[1]) \o " " \o JoinTags(Tail(tags))

\* _convert, lines 75-79: [tags_str, exc]; t[0] of an empty tag is an IndexError
TagsStr(entry) ==
    LET tags == Get(entry, "tags")
    IN  IF tags = None \/ tags = <<>> THEN [tags_str |-> "#untagged", exc |-> "none"]
        ELSE IF \E i \in DOMAIN tags : tags[i] = <<>>
        THEN [tags_str |-> "", exc |-> "IndexError"]
        ELSE [tags_str |-> JoinTags([i \in DOMAIN tags |-> NormalizeTag(tags[i])]),
              exc |-> "none"]

\* The three kinds of media of an entry, in the order the code visits them
MediaKinds == <<"photos", "pdfAttachments", "audios">>

\* The moment URL of a media item in the body text
MomentUrl(kind, media) ==
    IF kind = "photos" THEN "dayone-moment://" \o media.identifier
    ELSE IF kind = "pdfAttachments" THEN "dayone-moment:/pdfAttachment/" \o media.identifier
    ELSE "dayone-moment:/audio/" \o media.identifier

\* The keys of a media item that _convert reads
ConvertMediaKeys(kind) ==
    IF kind = "photos" THEN {"identifier", "md5", "type"}
    ELSE IF kind = "pdfAttachments" THEN {"identifier", "md5"}
    ELSE {"identifier", "md5", "format"}

\* _convert, lines 89-105: the local path written into the body text
ConvertMediaPath(base_path, kind, media) ==
    IF kind = "photos" THEN base_path \o "/photos/" \o media.md5 \o "." \o media.type
    ELSE IF kind = "pdfAttachments" THEN base_path \o "/pdfs/" \o media.md5 \o ".pdf"
    ELSE base_path \o "/audios/" \o media.md5 \o "." \o media.format

\* text.replace(f"![]({moment_url})", f"![]({local_path})")
ReplaceMoment(text, moment_url, local_path) ==
    [i \in DOMAIN text |->
        IF /\ text[i] = moment_url /\ i > 4 /\ i < Len(text)
           /\ text[i - 4] = "!" /\ text[i - 3] = "[" /\ text[i - 2] = "]"
           /\ text[i - 1] = "(" /\ text[i + 1] = ")"
        THEN local_path ELSE text[i]]

\* The media items of an entry as <<kind, item>> pairs, kind by kind
EntryMedia(entry) ==
    Concat([k \in DOMAIN MediaKinds |->
               IF MediaKinds[k] \in DOMAIN entry
               THEN [n \in DOMAIN entry[MediaKinds[k]] |->
                        [kind |-> MediaKinds[k], media |-> entry[MediaKinds[k]][n]]]
               ELSE <<>>])

\* _convert, lines 85-106: every moment URL of the entry's items rewritten
RECURSIVE RewriteMedia(_, _, _)
RewriteMedia(text, base_path, items) ==
    IF items = <<>> THEN text
    ELSE RewriteMedia(ReplaceMoment(text, MomentUrl(Head(items).kind, Head(items).media),
                                    ConvertMediaPath(base_path, Head(items).kind,
                                                     Head(items).media)),
                      base_path, Tail(items))

\* _convert(entry, base_path): [text, exc].  The raw entries at hand carry no
\* location, weather or device, so there is no metadata block.
Convert(entry, base_path) ==
    IF "creationDate" \notin DOMAIN entry THEN [text |-> <<>>, exc |-> "KeyError"]
    ELSE LET date   == EntryDate(entry)
             text   == IF "text" \in DOMAIN entry THEN Unescape(entry.text) ELSE <<>>
             tags   == TagsStr(entry)
             items  == EntryMedia(entry)
             star   == IF "starred" \in DOMAIN entry /\ entry.starred
                       THEN <<" *", "\n">> ELSE <<"\n">>
             header == <<"[", StrftimeHeader(date), "]", " ", tags.tags_str>> \o star
         IN  IF tags.exc # "none" THEN [text |-> <<>>, exc |-> tags.exc]
             ELSE IF /\ text # <<>>
                     /\ \E n \in DOMAIN items :
                           ~(ConvertMediaKeys(items[n].kind) \subseteq DOMAIN items[n].media)
             THEN [text |-> <<>>, exc |-> "KeyError"]
             ELSE [text |-> IF text # <<>>
                            THEN header \o <<"\n", "\n">>
                                 \o Strip(RewriteMedia(text, base_path, items))
                            ELSE header,
                   exc |-> "none"]

-----------------------------------------------------------------------------
(* Inputs: raw Day One entries, export files, journal names, texts *)

Date1 == <<2023, 5, 4, 3, "Z">>

Date2 == <<2023, 12, 31, 20, "Z">>

Link(display, uuid) == <<"[", display, "]", "(", LinkLiteral, uuid, ")">>

TextLink == <<"See", " ">> \o Link("my day", "U2")

TextPlain == <<" ", "Hello", "\\!", "\n">>

EntryA == [uuid |-> "U1", creationDate |-> Date1, timeZone |-> "America\\/New_York",
           text |-> TextLink]

EntryB == [uuid |-> "U1", creationDate |-> Date2, timeZone |-> "Asia\\/Tokyo"]

EntryC == [uuid |-> "U2", creationDate |-> Date1, text |-> TextPlain]

EntryNoUuid == [creationDate |-> Date2, text |-> TextPlain]

EntryEmptyUuid == [uuid |-> "", creationDate |-> Date1]

EntryNoDate == [uuid |-> "U2", text |-> TextPlain]

\* Media items as Day One exports them: photos carry "type", audios "format",
\* PDF attachments come with or without "type"
Photo1 == [identifier |-> "P1", md5 |-> "m1", type |-> "jpeg"]

Photo2 == [identifier |-> "P2", md5 |-> "m5", type |-> "png"]

Pdf1 == [identifier |-> "D1", md5 |-> "m2"]

Pdf2 == [identifier |-> "D2", md5 |-> "m4", type |-> "pdf"]

Audio1 == [identifier |-> "A1", md5 |-> "m3", format |-> "aac"]

\* ![](moment_url) in a body text
MomentRef(moment_url) == <<"!", "[", "]", "(", moment_url, ")">>

EntryPhoto ==
    [creationDate |-> Date1, photos |-> <<Photo1, Photo2>>,
     text |-> <<"a", " ">> \o MomentRef("dayone-moment://P1") \o <<"\n">>
              \o MomentRef("dayone-moment://P2")]

EntryPdf ==
    [creationDate |-> Date1, pdfAttachments |-> <<Pdf1>>,
     text |-> MomentRef("dayone-moment:/pdfAttachment/D1")]

EntryPdfTyped ==
    [creationDate |-> Date2, pdfAttachments |-> <<Pdf2>>, starred |-> TRUE,
     text |-> MomentRef("dayone-moment:/pdfAttachment/D2")]

EntryAudio ==
    [creationDate |-> Date1, audios |-> <<Audio1>>, photos |-> <<Photo1>>,
     text |-> MomentRef("dayone-moment:/audio/A1") \o MomentRef("dayone-moment://P1")]

\* Tags: "Hiking", "New York", " x y" and the empty string
TagHiking == <<"H", "iking">>

TagNewYork == <<"N", "ew", " ", "Y", "ork">>

TagSpaced == <<" ", "x", " ", "y">>

EntryTags == [creationDate |-> Date1, tags |-> <<TagHiking, TagNewYork>>, text |-> TextPlain]

EntryTagSpaced == [creationDate |-> Date2, tags |-> <<TagSpaced>>, starred |-> TRUE]

EntryNoTags == [creationDate |-> Date1, tags |-> <<>>, text |-> TextPlain]

EntryEmptyTag == [creationDate |-> Date1, tags |-> <<TagHiking, <<>>>>, text |-> TextPlain]

\* The "entries" arrays of the exports with media and tags
ConvertLists ==
    {<<EntryPhoto>>, <<EntryPdf>>, <<EntryPdfTyped>>, <<EntryAudio>>,
     <<EntryPhoto, EntryPdfTyped>>, <<EntryPdf, EntryAudio>>,
     <<EntryTags>>, <<EntryTagSpaced>>, <<EntryNoTags>>, <<EntryEmptyTag>>,
     <<EntryTags, EntryC>>, <<EntryC, EntryEmptyTag>>}

\* The media files an export directory can hold: Day One names a file by the
\* content hash, a PDF with the extension pdf, an aac recording with m4a
MediaFiles ==
    {"/exports/photos/m1.jpeg", "/exports/photos/m5.png", "/exports/pdfs/m2.pdf",
     "/exports/pdfs/m4.pdf", "/exports/audios/m3.m4a"}

Disks ==
    {{}, MediaFiles, {"/exports/photos/m1.jpeg"},
     {"/exports/pdfs/m2.pdf", "/exports/pdfs/m4.pdf", "/exports/audios/m3.m4a"}}

\* The "entries" arrays of the export files at hand
EntryLists ==
    {<<>>, <<EntryA>>, <<EntryB>>, <<EntryC>>, <<EntryNoUuid>>, <<EntryEmptyUuid>>,
     <<EntryNoDate>>, <<EntryA, EntryB>>, <<EntryB, EntryA>>, <<EntryA, EntryC>>,
     <<EntryNoUuid, EntryC>>, <<EntryA, EntryNoDate>>, <<EntryNoDate, EntryA>>,
     <<EntryA, EntryNoUuid, EntryC>>}

\* The journals of the configuration, each with the export that feeds it
Sources ==
    {[journal_name |-> "work",
      export_path |-> [parent |-> "/exports",
                       name |-> <<"%F0%9F%A7%AA", " Test 2", ".json">>]],
     [journal_name |-> "home",
      export_path |-> [parent |-> "/exports", name |-> <<"%41", ".b", ".json">>]]}

\* The "entries" arrays of the export files given to import_
ImportLists ==
    {<<>>, <<EntryA>>, <<EntryC>>, <<EntryA, EntryC>>, <<EntryA, EntryNoDate>>,
     <<EntryNoUuid, EntryC>>}

\* The file argument of a command: none, a path that does not exist, a file
\* that is not JSON, JSON without "entries", or an export created at ctime;
\* disk is the set of media files in the directories next to the export
BadInputs ==
    {[kind |-> k, path |-> [parent |-> "/exports", name |-> <<"x", ".json">>],
      ctime |-> 0, entries |-> <<>>, disk |-> {}] :
        k \in {"none", "missing", "badjson", "noentries"}}

Exports(lists, paths, t) ==
    {[kind |-> "export", path |-> p, ctime |-> c, entries |-> l, disk |-> {}] :
        l \in lists, p \in paths, c \in {0, t}}

WorkPath == (CHOOSE src \in Sources : src.journal_name = "work").export_path

\* What the user does at the terminal during import_: answers the prompt, or
\* interrupts (Ctrl-C) while the index loads, while the staleness check runs,
\* or while the prompt waits
Users == {"yes", "no", "cancel_construct", "cancel_gate", "cancel_prompt"}

Modes == {ModeUSE, ModeBUILD}

\* Texts given to resolve_links: up to MaxSegs segments, one after the other
Segments ==
    {<<"See", " ">>, Link("my day", "U2"), Link("x", "U1"),
     <<"[", "a", "]">>, <<"[", "d", "]", "(", LinkLiteral, "U1">>}

SegmentLists == SeqsUpTo(Segments, MaxSegs)

\* The exports an index is built from before links are resolved
LinkLists == {<<EntryB>>, <<EntryC>>}

Answers == {"yes", "no", ""}

-----------------------------------------------------------------------------
(* State *)

Out(op, args, exc, msgs, result) ==
    [op |-> op, args |-> args, exc |-> exc, msgs |-> msgs, result |-> result]

NoArgs == [none |-> TRUE]

ImpIdle == [pc |-> "idle", i |-> 0, texts |-> <<>>]

Init ==
    /\ file = NoFile
    /\ idx = NoIndex
    /\ now = 1
    /\ out = Out("none", NoArgs, "none", <<>>, <<>>)
    /\ imp = ImpIdle
    /\ journal = <<>>

-----------------------------------------------------------------------------
(* The index API *)

\* index = DayOneIndex(mode): a command starts and loads the index file
Construct(mode) ==
    LET r == NewIndex(file, mode)
    IN  /\ imp.pc = "idle"
        /\ idx' = r.idx
        /\ out' = Out("construct", [mode |-> mode], r.exc, r.msgs, <<>>)
        /\ journal' = <<>>
        /\ UNCHANGED <<file, now, imp>>

\* index.add_entries(entries, journal_name, export_journal_source)
AddEntries(entries, journal_name, export_path) ==
    LET r == AddEntriesResult(idx, now, entries, journal_name, export_path)
    IN  /\ imp.pc = "idle"
        /\ idx.mode # "none"
        /\ now <= MaxTime
        /\ idx' = r.idx
        /\ file' = IF r.write THEN SaveIndex(r.idx) ELSE file
        /\ now' = IF r.write THEN now + 1 ELSE now
        /\ out' = Out("add_entries",
                      [entries |-> entries, journal_name |-> journal_name,
                       export_path |-> export_path],
                      r.exc, r.msgs, <<>>)
        /\ UNCHANGED <<imp, journal>>

\* index.clear()
Clear(answer) ==
    LET r == ClearResult(idx, now, answer)
    IN  /\ imp.pc = "idle"
        /\ idx.mode # "none"
        /\ now <= MaxTime
        /\ idx' = r.idx
        /\ file' = IF r.write THEN SaveIndex(r.idx) ELSE file
        /\ now' = IF r.write THEN now + 1 ELSE now
        /\ out' = Out("clear", [answer |-> answer], "none", r.msgs, <<>>)
        /\ UNCHANGED <<imp, journal>>

\* index.resolve_links(text), the text being the segments joined
ResolveLinksCall(segs) ==
    LET r == resolve_links(idx, file, Concat(segs))
    IN  /\ imp.pc = "idle"
        /\ idx.mode # "none"
        /\ out' = Out("resolve_links", [segs |-> segs], "none", r.msgs, r.text)
        /\ UNCHANGED <<file, idx, now, imp, journal>>

\* jrnl --index (commands.py, postconfig_index), with --clear or --file
PostconfigIndex(clear, journal_name, input, answer) ==
    LET r0   == NewIndex(file, ModeBUILD)
        t0   == IF input.ctime = now THEN now + 1 ELSE now
        c    == ClearResult(r0.idx, t0, answer)
        a    == AddEntriesResult(r0.idx, t0, input.entries, journal_name, input.path)
        n    == Cardinality(DOMAIN a.idx.entries)
        exc  == IF input.kind = "none" THEN "JrnlException:IndexFileMissing"
                ELSE IF input.kind = "missing" THEN "JrnlException:IndexFileNotFound"
                ELSE IF input.kind = "badjson" THEN "JSONDecodeError"
                ELSE IF input.kind = "noentries" THEN "JrnlException:InvalidExport"
                ELSE "none"
        args == [clear |-> clear, journal_name |-> journal_name, input |-> input,
                 answer |-> answer]
        res  == IF r0.exc # "none"
                THEN [idx |-> r0.idx, write |-> FALSE, exc |-> r0.exc, msgs |-> r0.msgs]
                ELSE IF clear
                THEN [idx |-> c.idx, write |-> c.write, exc |-> "none",
                      msgs |-> r0.msgs \o c.msgs
                               \o <<Message("IndexCleared", "NORMAL")>>]
                ELSE IF exc # "none"
                THEN [idx |-> r0.idx, write |-> FALSE, exc |-> exc, msgs |-> r0.msgs]
                ELSE IF a.exc # "none"
                THEN [idx |-> a.idx, write |-> FALSE, exc |-> a.exc, msgs |-> r0.msgs]
                ELSE [idx |-> a.idx, write |-> a.write, exc |-> "none",
                      msgs |-> r0.msgs \o a.msgs
                               \o <<MessageCount(IF n = Len(input.entries)
                                                 THEN "IndexCreated" ELSE "IndexUpdated",
                                                 "NORMAL", n)>>]
    IN  /\ imp.pc = "idle"
        /\ t0 <= MaxTime
        /\ idx' = res.idx
        /\ file' = IF res.write THEN SaveIndex(res.idx) ELSE file
        /\ now' = IF res.write THEN t0 + 1 ELSE t0
        /\ out' = Out("postconfig_index", args, res.exc, res.msgs, <<>>)
        /\ journal' = <<>>
        /\ UNCHANGED imp

\* A file that is not JSON (cut short, or overwritten with other text)
NotJson == [kind |-> "text", data |-> EmptyMap]

DropKey(d, k) == [x \in DOMAIN d \ {k} |-> d[x]]

RenameKey(d, old, new) ==
    IF old \notin DOMAIN d THEN d
    ELSE [x \in (DOMAIN d \ {old}) \cup {new} |-> IF x = new THEN d[old] ELSE d[x]]

\* What the content of dayone_index.json can become outside the program: no
\* JSON at all, the "entries" object gone, one key of one entry gone, or every
\* entry carrying its journal of origin under the key "original_journal_name"
EditedFiles(f) ==
    {NotJson}
    \cup (IF f.kind = "json" /\ "entries" \in DOMAIN f.data
          THEN {[f EXCEPT !.data = DropKey(f.data, "entries")]}
               \cup UNION {{[f EXCEPT !.data.entries[u] = DropKey(f.data.entries[u], k)] :
                               k \in DOMAIN f.data.entries[u]} :
                            u \in DOMAIN f.data.entries}
               \cup {[f EXCEPT !.data.entries =
                          [u \in DOMAIN f.data.entries |->
                              RenameKey(f.data.entries[u], "orignal_journal_name",
                                        "original_journal_name")]]}
          ELSE {})

\* The index file is edited by hand, or damaged, between two commands; one
\* edit per file the program wrote
EditIndexFile(f) ==
    /\ imp.pc = "idle"
    /\ f # file
    /\ LoadIndex(file, ModeBUILD).exc = "none"
    /\ file' = f
    /\ out' = Out("edit_file", NoArgs, "none", <<>>, <<>>)
    /\ UNCHANGED <<idx, now, imp, journal>>

Next ==
    \/ \E mode \in Modes : Construct(mode)
    \/ \E entries \in EntryLists, src \in Sources :
          AddEntries(entries, src.journal_name, src.export_path)
    \/ \E answer \in Answers : Clear(answer)

Spec == Init /\ [][Next]_vars

-----------------------------------------------------------------------------
(* import_ (dayone_json_importer.py), one step per stage of the pipeline *)

\* datetime.timestamp() of a naive datetime: datetime.min is out of range
Timestamp(t) ==
    IF t = DatetimeMin THEN [exc |-> "ValueError", value |-> 0]
    ELSE [exc |-> "none", value |-> t]

\* The validation without the test of line 181
InputExcNoEntriesTest(input) ==
    IF input.kind = "none" THEN "JrnlException:NoInputPath"
    ELSE IF input.kind = "missing" THEN "JrnlException:DoesNotExist"
    ELSE IF input.kind = "badjson" THEN "JrnlException:InvalidJSON"
    ELSE "none"

\* Lines 164-188: the exception the validation of the input raises

InputExc(input) ==
    IF input.kind = "none" THEN "JrnlException:NoInputPath"
    ELSE IF input.kind = "missing" THEN "JrnlException:DoesNotExist"
    ELSE IF input.kind = "badjson" THEN "JrnlException:InvalidJSON"
    ELSE IF input.kind = "noentries" THEN "JrnlException:InvalidExport"
    ELSE "none"

Finish(exc, msgs) == out' = [out EXCEPT !.exc = exc, !.msgs = out.msgs \o msgs]

\* Message(text, style, {"path": ...})
MessageArg(text, style, arg) == [text |-> text, style |-> style, count |-> 0 - 1, arg |-> arg]

\* Line 191: the directory of each kind of media
MediaDir(kind) ==
    IF kind = "photos" THEN "photos"
    ELSE IF kind = "pdfAttachments" THEN "pdfs"
    ELSE "audios"

\* Lines 196-198: media.get("type", "") or media.get("format", ""), aac as m4a
MediaExt(media) ==
    LET type == IF "type" \in DOMAIN media THEN media.type ELSE ""
        ext  == IF type # "" THEN type
                ELSE IF "format" \in DOMAIN media THEN media.format ELSE ""
    IN  IF ext = "aac" THEN "m4a" ELSE ext

\* Line 199: the path whose existence is verified
MediaCheckPath(parent, kind, media) ==
    parent \o "/" \o MediaDir(kind) \o "/" \o media.md5 \o "." \o MediaExt(media)

\* Every media item of every entry, in the order of lines 193-195
AllMedia(entries) == Concat([i \in DOMAIN entries |-> EntryMedia(entries[i])])

\* Lines 200-207: one warning for each item whose file is not on the disk
RECURSIVE MediaWarnings(_, _, _)
MediaWarnings(items, parent, disk) ==
    IF items = <<>> THEN <<>>
    ELSE LET media_path == MediaCheckPath(parent, Head(items).kind, Head(items).media)
         IN  (IF media_path \in disk THEN <<>>
              ELSE <<MessageArg("MediaNotFound", "WARNING", media_path)>>)
             \o MediaWarnings(Tail(items), parent, disk)

\* Lines 208-209: the items whose file is on the disk are counted
MediaCount(items, parent, disk) ==
    Cardinality({n \in DOMAIN items :
                    MediaCheckPath(parent, items[n].kind, items[n].media) \in disk})

\* Lines 190-218: the messages of the media check
MediaCheck(entries, parent, disk) ==
    LET items       == AllMedia(entries)
        media_count == MediaCount(items, parent, disk)
    IN  MediaWarnings(items, parent, disk)
        \o (IF media_count > 0
            THEN <<MessageCount("MediaProcessed", "NORMAL", media_count)>> ELSE <<>>)

\* Lines 164-218: validate the input, check the media files
ImportStart(input, user) ==
    /\ imp.pc = "idle"
    /\ input.ctime = now => now <= MaxTime
    /\ now' = IF input.ctime = now THEN now + 1 ELSE now
    /\ idx' = NoIndex
    /\ journal' = <<>>
    /\ out' = Out("import_", [input |-> input, user |-> user], InputExc(input),
                  IF InputExc(input) = "none"
                  THEN MediaCheck(input.entries, input.path.parent, input.disk) ELSE <<>>,
                  <<>>)
    /\ imp' = IF InputExc(input) = "none" THEN [ImpIdle EXCEPT !.pc = "index"] ELSE ImpIdle
    /\ UNCHANGED file

\* Lines 220-236: build the index object, check staleness, ask to continue
ImportSetupIndex ==
    LET user    == out.args.user
        input   == out.args.input
        r       == NewIndex(file, ModeUSE)
        ts      == Timestamp(r.idx.last_modified)
        aborted == <<Message("ImportAborted", "WARNING")>>
        goon    == IF input.entries = <<>> THEN "journal" ELSE "convert"
    IN  /\ imp.pc = "index"
        /\ IF user = "cancel_construct"
           THEN /\ Finish("none", aborted)
                /\ imp' = ImpIdle
                /\ idx' = idx
           ELSE IF r.exc # "none"
           THEN /\ Finish(r.exc, r.msgs)
                /\ imp' = ImpIdle
                /\ idx' = r.idx
           ELSE IF user = "cancel_gate"
           THEN /\ Finish("KeyboardInterrupt", r.msgs)
                /\ imp' = ImpIdle
                /\ idx' = r.idx
           ELSE IF ~is_usable(r.idx, file)
           THEN /\ Finish("none", r.msgs)
                /\ imp' = [imp EXCEPT !.pc = goon, !.i = 1]
                /\ idx' = r.idx
           ELSE IF ts.exc # "none"
           THEN /\ Finish(ts.exc, r.msgs)
                /\ imp' = ImpIdle
                /\ idx' = r.idx
           ELSE IF ~(ts.value < input.ctime)
           THEN /\ Finish("none", r.msgs)
                /\ imp' = [imp EXCEPT !.pc = goon, !.i = 1]
                /\ idx' = r.idx
           ELSE IF "IndexOutdated" \notin DayOneIndexMsg
           THEN /\ Finish("AttributeError", r.msgs)
                /\ imp' = ImpIdle
                /\ idx' = r.idx
           ELSE IF ~Yesno(user, FALSE)
           THEN /\ Finish("none", r.msgs \o <<Message("IndexOutdated", "WARNING"),
                                              YesnoPrompt("Continue", FALSE)>> \o aborted)
                /\ imp' = ImpIdle
                /\ idx' = r.idx
           ELSE /\ Finish("none", r.msgs \o <<Message("IndexOutdated", "WARNING"),
                                              YesnoPrompt("Continue", FALSE)>>)
                /\ imp' = [imp EXCEPT !.pc = goon, !.i = 1]
                /\ idx' = r.idx
        /\ UNCHANGED <<file, now, journal>>

\* Lines 242-259: convert one entry and resolve its links
ImportConvert ==
    LET input    == out.args.input
        entry    == input.entries[imp.i]
        c        == Convert(entry, input.path.parent)
        r        == resolve_links(idx, file, c.text)
        progress == MessageCount("ProcessingEntry", "NORMAL", imp.i)
    IN  /\ imp.pc = "convert"
        /\ IF c.exc # "none"
           THEN /\ Finish(c.exc, <<progress>>)
                /\ imp' = ImpIdle
           ELSE /\ Finish("none", <<progress>> \o r.msgs)
                /\ imp' = [imp EXCEPT !.texts = Append(imp.texts, r.text),
                                      !.i = imp.i + 1,
                                      !.pc = IF imp.i = Len(input.entries)
                                             THEN "journal" ELSE "convert"]
        /\ UNCHANGED <<file, idx, now, journal>>

\* The texts put one after the other with nothing between them
RECURSIVE JoinNoSeparator(_)
JoinNoSeparator(texts) ==
    IF texts = <<>> THEN <<>> ELSE texts[1] \o JoinNoSeparator(Tail(texts))

\* "\n\n".join(entries_text)
RECURSIVE JoinBlank(_)
JoinBlank(texts) ==
    IF texts = <<>> THEN <<>>
    ELSE IF Len(texts) = 1 THEN texts[1]
    ELSE texts[1] \o <<"\n", "\n">> \o JoinBlank(Tail(texts))

\* Lines 262-273: hand the text to the journal, write it, report
ImportJournal ==
    /\ imp.pc = "journal"
    /\ journal' = journal \o <<[call |-> "import_", text |-> JoinBlank(imp.texts)],
                               [call |-> "write", text |-> <<>>]>>
    /\ Finish("none", <<Message("ImportSummary", "NORMAL")>>)
    /\ imp' = ImpIdle
    /\ UNCHANGED <<file, idx, now>>

-----------------------------------------------------------------------------
(* Specifications of the import pipeline and of link resolution *)

\* The command line of jrnl --index: --clear, or --file with a journal name
IndexCommands(t) ==
    {[clear |-> TRUE, journal_name |-> "work", input |-> i, answer |-> a] :
        i \in {x \in BadInputs : x.kind = "none"}, a \in Answers}
    \cup {[clear |-> FALSE, journal_name |-> src.journal_name, input |-> i, answer |-> ""] :
            src \in Sources,
            i \in BadInputs \cup Exports(ImportLists, {WorkPath}, t)}

NextImport ==
    \/ \E cmd \in IndexCommands(now) :
          PostconfigIndex(cmd.clear, cmd.journal_name, cmd.input, cmd.answer)
    \/ \E input \in BadInputs \cup Exports(ImportLists, {WorkPath}, now), user \in Users :
          ImportStart(input, user)
    \/ ImportSetupIndex
    \/ ImportConvert
    \/ ImportJournal

SpecImport == Init /\ [][NextImport]_vars

NextLinks ==
    \/ \E mode \in Modes : Construct(mode)
    \/ \E entries \in LinkLists, src \in Sources :
          AddEntries(entries, src.journal_name, src.export_path)
    \/ \E segs \in SegmentLists : ResolveLinksCall(segs)

SpecLinks == Init /\ [][NextLinks]_vars

\* The exports an index is built from before its file is edited
LoadLists == {<<EntryA>>, <<EntryC>>, <<EntryA, EntryC>>}

NextLoad ==
    \/ \E mode \in Modes : Construct(mode)
    \/ \E entries \in LoadLists, src \in Sources :
          AddEntries(entries, src.journal_name, src.export_path)
    \/ \E f \in EditedFiles(file) : EditIndexFile(f)

SpecLoad == Init /\ [][NextLoad]_vars

\* The exports with media and tags, in their directory with its media files
MediaExports ==
    {[kind |-> "export", path |-> WorkPath, ctime |-> 0, entries |-> l, disk |-> d] :
        l \in ConvertLists, d \in Disks}

\* Imports of such exports, no index having been built
NextConvert ==
    \/ \E input \in MediaExports, user \in {"yes", "cancel_construct"} :
          ImportStart(input, user)
    \/ ImportSetupIndex
    \/ ImportConvert
    \/ ImportJournal

SpecConvert == Init /\ [][NextConvert]_vars

-----------------------------------------------------------------------------
(* Properties of the index (specification Spec) *)

\* The uuids a list of raw entries brings: those of the entries that have one
InputUuids(entries) ==
    {entries[i].uuid : i \in {k \in DOMAIN entries :
                                 "uuid" \in DOMAIN entries[k] /\ entries[k].uuid # ""}}

\* The first entry of the list with the uuid
FirstWith(entries, u) ==
    entries[CHOOSE i \in DOMAIN entries :
                /\ Get(entries[i], "uuid") = u
                /\ \A j \in 1..(i - 1) : Get(entries[j], "uuid") # u]

UpToDateReported(o) == Texts(o.msgs) = {"IndexUpToDate"}

\* C1: idempotence of add_entries.  When add_entries returns and is called
\* again at once with the same entries, journal name and export path, the
\* second call reports "up to date" and changes neither last_modified nor the
\* index file.
C1_Idempotent ==
    [][(/\ out.op = "add_entries" /\ out.exc = "none"
        /\ out'.op = "add_entries" /\ out'.args = out.args)
       => (/\ UpToDateReported(out')
           /\ idx'.last_modified = idx.last_modified
           /\ file' = file)]_vars

\* C2: a no-op merge leaves the timestamp alone.  An add_entries call that
\* returns having added no entry reports "up to date", keeps last_modified and
\* does not write the file; and a call of add_entries or clear changes
\* last_modified only if it added an entry or was a confirmed clear.
C2_NoopMerge ==
    [][/\ (/\ out'.op = "add_entries" /\ out'.exc = "none"
           /\ DOMAIN idx'.entries = DOMAIN idx.entries)
          => (/\ UpToDateReported(out')
              /\ idx'.last_modified = idx.last_modified
              /\ file' = file)
       /\ (/\ out'.op \in {"add_entries", "clear"}
           /\ idx'.last_modified # idx.last_modified)
          => \/ DOMAIN idx'.entries # DOMAIN idx.entries
             \/ (out'.op = "clear" /\ out'.args.answer = "yes")]_vars

\* C3: first write wins.  An add_entries call (returning or raising) keeps
\* every uuid already in the index with its date, journal_name and
\* original_journal_name untouched, and gives each uuid it introduces the
\* metadata of the first entry of its list with that uuid, under the journal
\* name and the export path of that call.
C3_FirstWriteWins ==
    [][out'.op = "add_entries"
       => /\ \A u \in DOMAIN idx.entries :
                u \in DOMAIN idx'.entries /\ idx'.entries[u] = idx.entries[u]
          /\ \A u \in DOMAIN idx'.entries \ DOMAIN idx.entries :
                idx'.entries[u] =
                    IndexedEntry(u, EntryDate(FirstWith(out'.args.entries, u)),
                                 out'.args.journal_name,
                                 extract_journal_name(out'.args.export_path))]_vars

\* C3 witness: a call offered, for a uuid the index holds, metadata other than
\* the metadata the index holds for it
C3_Witness ==
    /\ out.op = "add_entries"
    /\ \E i \in DOMAIN out.args.entries :
          LET e == out.args.entries[i]
          IN  /\ "uuid" \in DOMAIN e /\ "creationDate" \in DOMAIN e
              /\ e.uuid \in DOMAIN idx.entries
              /\ idx.entries[e.uuid].journal_name # out.args.journal_name
              /\ idx.entries[e.uuid].date # EntryDate(e)

\* C4: save/load round trip.  Whenever the index is saved, constructing a new
\* index (in either mode) from the file just written yields the entry mapping
\* and the last_modified that were saved.
C4_RoundTrip ==
    [][file' # file
       => \A mode \in Modes :
             /\ NewIndex(file', mode).exc = "none"
             /\ NewIndex(file', mode).idx.entries = idx'.entries
             /\ NewIndex(file', mode).idx.last_modified = idx'.last_modified]_vars

\* The part of C4 that the code keeps: the entry mapping survives the round trip
C4_EntriesRoundTrip ==
    [][file' # file
       => \A mode \in Modes :
             /\ NewIndex(file', mode).exc = "none"
             /\ NewIndex(file', mode).idx.entries = idx'.entries]_vars

\* C9: clear() is gated by confirmation.  Every clear() asks one yes/no
\* question whose default is no; unless the answer is yes, the entry mapping,
\* last_modified and the index file stay as they were; on yes the mapping is
\* empty, last_modified is the (later) time of the call, and the file holds the
\* empty mapping with that time.
C9_ClearGated ==
    [][out'.op = "clear"
       => /\ out'.msgs = <<YesnoPrompt("IndexClearConfirm", FALSE)>>
          /\ out'.args.answer # "yes" => (idx' = idx /\ file' = file)
          /\ out'.args.answer = "yes"
             => /\ DOMAIN idx'.entries = {}
                /\ idx'.mode = idx.mode
                /\ idx'.last_modified = now /\ idx'.last_modified > idx.last_modified
                /\ file'.kind = "json"
                /\ DOMAIN file'.data.entries = {}
                /\ file'.data.last_modified = IsoformatNaive(now)]_vars

\* C9 witness: a confirmed clear of an index that had been written before
C9_Witness ==
    /\ out.op = "clear" /\ out.args.answer = "yes"
    /\ idx.last_modified >= 2
    /\ DOMAIN idx.entries = {}

\* C9 witness of the other branch: the default was taken and entries remain
C9_WitnessDeclined ==
    /\ out.op = "clear" /\ out.args.answer = ""
    /\ DOMAIN idx.entries # {}

\* The journal name an export file name stands for, written out
DecodedName(name) ==
    IF name = <<"%F0%9F%A7%AA", " Test 2", ".json">> THEN "<U+1F9EA> Test 2"
    ELSE IF name = <<"%41", ".b", ".json">> THEN "A.b"
    ELSE "?"

AllCarryDate(entries) == \A i \in DOMAIN entries : "creationDate" \in DOMAIN entries[i]

\* C10: merge result of add_entries.  For a list of raw entries that all carry
\* creationDate, the call does not raise, the key set afterwards is the prior
\* key set united with the (non-empty) uuids of the list, and every uuid it
\* added carries the journal name given and the percent-decoded stem of the
\* export file name.
C10_MergeResult ==
    [][(out'.op = "add_entries" /\ AllCarryDate(out'.args.entries))
       => /\ out'.exc = "none"
          /\ DOMAIN idx'.entries = DOMAIN idx.entries \cup InputUuids(out'.args.entries)
          /\ \A u \in DOMAIN idx'.entries \ DOMAIN idx.entries :
                /\ idx'.entries[u].uuid = u
                /\ idx'.entries[u].journal_name = out'.args.journal_name
                /\ idx'.entries[u].original_journal_name =
                       DecodedName(out'.args.export_path.name)]_vars

\* C10 witness: a list with an entry without uuid was merged into an index
\* that now holds both uuids, one of them under the decoded name
C10_Witness ==
    /\ out.op = "add_entries" /\ out.exc = "none"
    /\ \E i \in DOMAIN out.args.entries : "uuid" \notin DOMAIN out.args.entries[i]
    /\ InputUuids(out.args.entries) # {}
    /\ DOMAIN idx.entries = {"U1", "U2"}
    /\ \E u \in InputUuids(out.args.entries) :
          /\ idx.entries[u].journal_name = out.args.journal_name
          /\ idx.entries[u].original_journal_name = "<U+1F9EA> Test 2"

\* C11: status report of add_entries.  A call that returns prints exactly one
\* of "created", "updated", "up to date": "created" exactly when the index was
\* empty before the call and is non-empty after it, "updated" exactly when it
\* was non-empty before and grew, then with the count of entries added, and
\* "up to date" in every other case.
C11_StatusReport ==
    [][(out'.op = "add_entries" /\ out'.exc = "none")
       => LET before == Cardinality(DOMAIN idx.entries)
              after  == Cardinality(DOMAIN idx'.entries)
          IN  /\ Len(out'.msgs) = 1
              /\ out'.msgs[1].text \in {"IndexCreated", "IndexUpdated", "IndexUpToDate"}
              /\ out'.msgs[1].text = "IndexCreated" <=> (before = 0 /\ after > 0)
              /\ out'.msgs[1].text = "IndexUpdated" <=> (before > 0 /\ after > before)
              /\ out'.msgs[1].text = "IndexUpdated"
                 => out'.msgs[1].count = after - before]_vars

\* C13: warning on an unusable index at construction.  A construction in USE
\* mode that leaves an index that is not usable -- the file does not exist, or
\* it exists and holds an empty entry mapping -- has printed a warning and the
\* index has no entries; a construction in BUILD mode has printed nothing.
C13_ConstructWarns ==
    (out.op = "construct" /\ out.exc = "none")
    => /\ (out.args.mode = ModeUSE /\ ~is_usable(idx, file))
          => /\ \E i \in DOMAIN out.msgs : out.msgs[i].style = "WARNING"
             /\ DOMAIN idx.entries = {}
       /\ out.args.mode = ModeBUILD => out.msgs = <<>>

\* The entry mapping an index file stores; none where there is no file
StoredEntries(f) == IF f.kind = "json" THEN f.data.entries ELSE EmptyMap

\* C18: add_entries is atomic and memory matches disk.  After every
\* add_entries or clear call, returning or raising, the in-memory entry
\* mapping is the mapping stored in the index file; a call that raises leaves
\* the in-memory mapping and the file as they were before the call.
C18_AtomicAndPersisted ==
    [][out'.op \in {"add_entries", "clear"}
       => /\ [u \in DOMAIN idx'.entries |-> SavedEntry(idx'.entries[u])]
                 = StoredEntries(file')
          /\ out'.exc # "none" => (idx'.entries = idx.entries /\ file' = file)]_vars

-----------------------------------------------------------------------------
(* Properties of the import pipeline (specification SpecImport) *)

ImportFinished == out.op = "import_" /\ imp.pc = "idle"

\* The index that import_ loaded is usable and older than the export file:
\* by the time the object holds and by the time the index file records
StaleIndex ==
    /\ idx.mode = ModeUSE
    /\ is_usable(idx, file)
    /\ idx.last_modified < out.args.input.ctime
    /\ FromIsoformatNaive(file.data.last_modified) < out.args.input.ctime

\* The position of the first message with the text, or 0
FirstMsg(msgs, text) ==
    IF text \in Texts(msgs)
    THEN CHOOSE i \in DOMAIN msgs :
            msgs[i].text = text /\ \A j \in 1..(i - 1) : msgs[j].text # text
    ELSE 0

WarnedThenAsked(msgs) ==
    LET w == FirstMsg(msgs, "IndexOutdated")
        q == FirstMsg(msgs, "Continue")
        c == FirstMsg(msgs, "ProcessingEntry")
    IN  /\ w > 0 /\ q > w
        /\ msgs[q] = YesnoPrompt("Continue", FALSE)
        /\ c = 0 \/ c > q

\* C5: the staleness gate fires.  In an import_ past its index set-up with a
\* user who answers the prompt, a usable index older than the export file's
\* creation time has produced the staleness warning and then the yes/no
\* question (default no), before any entry was converted and before any
\* journal call.
C5_StaleGateFires ==
    (/\ out.op = "import_" /\ imp.pc # "index"
     /\ out.args.user \in {"yes", "no"}
     /\ StaleIndex)
    => WarnedThenAsked(out.msgs)

\* C6: a declined import is a clean abort.  With a stale index and a user who
\* answers no, the finished import_ has emitted "import aborted", has not
\* raised, and the journal has received no call.
C6_DeclineCleanAbort ==
    (ImportFinished /\ StaleIndex /\ out.args.user = "no")
    => /\ "ImportAborted" \in Texts(out.msgs)
       /\ out.exc = "none"
       /\ journal = <<>>

\* The user interrupted during the index set-up of this import_
Cancelled ==
    /\ InputExc(out.args.input) = "none"
    /\ \/ out.args.user = "cancel_construct"
       \/ out.args.user = "cancel_gate" /\ idx.mode = ModeUSE
       \/ out.args.user = "cancel_prompt" /\ StaleIndex

\* C7: cancellation equals "no".  An import_ whose user interrupted during the
\* index set-up finishes with the "import aborted" notice, without raising
\* and without any journal call.
C7_CancelIsNo ==
    (ImportFinished /\ Cancelled)
    => /\ "ImportAborted" \in Texts(out.msgs)
       /\ out.exc = "none"
       /\ journal = <<>>

-----------------------------------------------------------------------------
(* Properties of link resolution (specification SpecLinks) *)

TwoDigits(n) ==
    <<"01", "02", "03", "04", "05", "06", "07", "08", "09", "10", "11", "12", "13",
      "14", "15", "16", "17", "18", "19", "20", "21", "22", "23", "24", "25", "26",
      "27", "28", "29", "30", "31">>[n]

FourDigits(n) == IF n = 2023 THEN "2023" ELSE IF n = 2024 THEN "2024" ELSE "?"

IsLink(seg) ==
    /\ Len(seg) = 7
    /\ seg[1] = "[" /\ seg[3] = "]" /\ seg[4] = "(" /\ seg[5] = LinkLiteral /\ seg[7] = ")"

\* What a segment must read after resolution
ExpectedSeg(seg) ==
    IF IsLink(seg) /\ seg[6] \in DOMAIN idx.entries
    THEN LET target == idx.entries[seg[6]]
         IN  "[[" \o target.journal_name \o "/" \o FourDigits(target.date.y) \o "/"
             \o TwoDigits(target.date.mo) \o "/" \o TwoDigits(target.date.d)
             \o "|" \o seg[2] \o "]]"
    ELSE Flatten(seg)

\* C8: link resolution.  With a usable index, resolve_links turns every link
\* whose uuid is a key of the index into [[journal_name/YYYY/MM/DD|display]]
\* (zero-padded date of that entry), leaves every other segment -- a link to
\* an unknown uuid, plain text, brackets that are no link -- character for
\* character as it was, raises nothing and prints no warning.
C8_LinkResolution ==
    (out.op = "resolve_links" /\ is_usable(idx, file))
    => /\ out.exc = "none"
       /\ out.msgs = <<>>
       /\ Flatten(out.result) =
              Flatten([i \in DOMAIN out.args.segs |-> ExpectedSeg(out.args.segs[i])])

\* C8 witness: a text with a link to a known uuid and a link to an unknown one,
\* the known one resolved to an entry dated 2023-05-04 of journal "work"
C8_Witness ==
    /\ out.op = "resolve_links" /\ is_usable(idx, file)
    /\ out.args.segs = <<Link("my day", "U2"), Link("x", "U1")>>
    /\ Flatten(out.result) = "[[work/2023/05/04|my day]][x](dayone2://view?Id=U1)"

-----------------------------------------------------------------------------
(* Properties of loading the index file (specification SpecLoad) *)

\* The index file exists and does not parse as JSON, or lacks "entries", or
\* has an entry without its date, its journal name, or its journal of origin
\* (under either spelling of that key)
MalformedFile(f) ==
    /\ f.kind # "absent"
    /\ \/ f.kind # "json"
       \/ "entries" \notin DOMAIN f.data
       \/ \E u \in DOMAIN f.data.entries :
             \/ "date" \notin DOMAIN f.data.entries[u]
             \/ "journal_name" \notin DOMAIN f.data.entries[u]
             \/ {"orignal_journal_name", "original_journal_name"}
                    \cap DOMAIN f.data.entries[u] = {}

FatalLoadErrors == {"JrnlException:IndexFileMalformed", "JrnlException:IndexLoadError"}

\* C12: a malformed index is fatal in both modes.  Constructing the index, in
\* USE or in BUILD mode, over a file that is malformed raises the fatal
\* exception with the message of the load failure, yields no index object (so
\* none with an empty entry mapping), prints nothing else and leaves the file
\* as it was.
C12_MalformedFatal ==
    [][(out'.op = "construct" /\ MalformedFile(file))
       => /\ out'.exc \in FatalLoadErrors
          /\ out'.msgs = <<>>
          /\ idx' = NoIndex
          /\ file' = file]_vars

\* C12 witness: BUILD mode met a JSON file whose entries object has an entry
\* without "date", next to a complete one, and raised
C12_Witness ==
    /\ out.op = "construct" /\ out.args.mode = ModeBUILD
    /\ out.exc = "JrnlException:IndexFileMalformed"
    /\ file.kind = "json" /\ "entries" \in DOMAIN file.data
    /\ \E u, v \in DOMAIN file.data.entries :
          /\ "date" \notin DOMAIN file.data.entries[u]
          /\ RequiredEntryKeys \subseteq DOMAIN file.data.entries[v]

\* C12 witness of the other failure: USE mode met a file that is not JSON
C12_WitnessNotJson ==
    /\ out.op = "construct" /\ out.args.mode = ModeUSE
    /\ out.exc = "JrnlException:IndexLoadError"
    /\ file = NotJson

\* The persistence format: a JSON object with the keys last_modified and
\* entries, each entry an object with date, journal_name, original_journal_name
SchemaFile(f) ==
    /\ f.kind = "json"
    /\ DOMAIN f.data = {"last_modified", "entries"}
    /\ \A u \in DOMAIN f.data.entries :
          DOMAIN f.data.entries[u] = {"date", "journal_name", "original_journal_name"}

\* C14: persistence schema.  Every file _save_index writes has the persistence
\* format, and constructing the index over any file of that format raises
\* nothing.
C14_Schema ==
    [][/\ (out'.op \in {"add_entries", "clear"} /\ file' # file) => SchemaFile(file')
       /\ (out'.op = "construct" /\ SchemaFile(file)) => out'.exc = "none"]_vars

\* The half of C14 about loading alone
C14_SchemaLoads ==
    [][(out'.op = "construct" /\ SchemaFile(file)) => out'.exc = "none"]_vars

-----------------------------------------------------------------------------
(* Properties of the import pipeline, continued (specification SpecImport) *)

\* The fatal exception of each input that fails the validation
ExpectedInputError(kind) ==
    IF kind = "none" THEN "JrnlException:NoInputPath"
    ELSE IF kind = "missing" THEN "JrnlException:DoesNotExist"
    ELSE IF kind = "badjson" THEN "JrnlException:InvalidJSON"
    ELSE "JrnlException:InvalidExport"

EntryText(k) ==
    resolve_links(idx, file,
                  Convert(out.args.input.entries[k], out.args.input.path.parent).text).text

\* The first n texts, in order, a blank line between two neighbours
RECURSIVE JoinedUpTo(_, _)
JoinedUpTo(texts, n) ==
    IF n = 0 THEN <<>>
    ELSE IF n = 1 THEN texts[1]
    ELSE JoinedUpTo(texts, n - 1) \o <<"\n", "\n">> \o texts[n]

\* The import_ has ended without an exception and without the abort notice
ImportCompleted ==
    /\ ImportFinished
    /\ out.exc = "none"
    /\ "ImportAborted" \notin Texts(out.msgs)

\* C16: order and single bulk append.  While import_ converts, the texts it
\* has accumulated are those of the entries before the current one, in the
\* order of the export, and the journal has received no call; an import_ that
\* is not aborted ends with exactly one import_ call, carrying the texts of
\* all entries in that order joined by a blank line, followed by exactly one
\* write call.
C16_OrderedBulkAppend ==
    out.op = "import_"
    => LET n == Len(out.args.input.entries)
       IN  /\ imp.pc = "index" => (journal = <<>> /\ imp.texts = <<>>)
           /\ imp.pc = "convert"
              => /\ journal = <<>>
                 /\ imp.i \in 1..n
                 /\ imp.texts = [k \in 1..(imp.i - 1) |-> EntryText(k)]
           /\ imp.pc = "journal"
              => (journal = <<>> /\ imp.texts = [k \in 1..n |-> EntryText(k)])
           /\ ImportFinished
              => \/ journal = <<>> /\ ~ImportCompleted
                 \/ /\ ImportCompleted
                    /\ journal = <<[call |-> "import_",
                                    text |-> JoinedUpTo([k \in 1..n |-> EntryText(k)], n)],
                                   [call |-> "write", text |-> <<>>]>>

\* C16 witness: an import_ of two entries with a body text each has ended with
\* the two journal calls, after one progress message for each entry
C16_Witness ==
    /\ ImportCompleted
    /\ Len(out.args.input.entries) = 2
    /\ \A k \in 1..2 : "text" \in DOMAIN out.args.input.entries[k]
    /\ Len(journal) = 2 /\ journal[1].call = "import_" /\ journal[2].call = "write"
    /\ Cardinality({i \in DOMAIN out.msgs : out.msgs[i].text = "ProcessingEntry"}) = 2

\* C17: import indexes before converting.  After an import_ that was not
\* aborted, every entry of the export that has a uuid is a key of the index,
\* and so a link from one entry of the export to another was resolved.
C17_IndexedBeforeConvert ==
    ImportCompleted
    => /\ InputUuids(out.args.input.entries) \subseteq DOMAIN idx.entries
       /\ \A c \in DOMAIN journal :
             \A i \in 1..(Len(journal[c].text) - 1) :
                journal[c].text[i] = LinkLiteral
                => journal[c].text[i + 1] \notin InputUuids(out.args.input.entries)

-----------------------------------------------------------------------------
(* Properties of the media check and of conversion (specification SpecConvert) *)

\* The file of a media item in the export directory: Day One names it by the
\* content hash, with the extension of the photo's type, pdf, or m4a
ExportedFile(parent, kind, media) ==
    IF kind = "photos" THEN parent \o "/photos/" \o media.md5 \o "." \o media.type
    ELSE IF kind = "pdfAttachments" THEN parent \o "/pdfs/" \o media.md5 \o ".pdf"
    ELSE parent \o "/audios/" \o media.md5 \o ".m4a"

CountMsgs(msgs, text) == Cardinality({i \in DOMAIN msgs : msgs[i].text = text})

\* Every entry of the list converts without an exception
AllConvert(entries, base_path) ==
    \A k \in DOMAIN entries : Convert(entries[k], base_path).exc = "none"

\* What C19 asks of the media check, the file of an item being File(kind, item):
\* right after the check, one warning for each item whose file is missing, the
\* count of the items whose file exists reported last (nothing reported when
\* there is none), no exception; and an import_ whose user goes on and whose
\* entries convert ends with the entries handed to the journal.
MediaChecked(File(_, _)) ==
    LET input   == out.args.input
        items   == AllMedia(input.entries)
        present == {n \in DOMAIN items : File(items[n].kind, items[n].media) \in input.disk}
        missing == DOMAIN items \ present
    IN  /\ (out.op = "import_" /\ imp.pc = "index")
           => /\ out.exc = "none"
              /\ CountMsgs(out.msgs, "MediaNotFound") = Cardinality(missing)
              /\ \A i \in DOMAIN out.msgs :
                    out.msgs[i].text = "MediaNotFound" => out.msgs[i].style = "WARNING"
              /\ IF present = {} THEN CountMsgs(out.msgs, "MediaProcessed") = 0
                 ELSE out.msgs[Len(out.msgs)] =
                          MessageCount("MediaProcessed", "NORMAL", Cardinality(present))
        /\ (/\ ImportFinished /\ out.op = "import_" /\ out.args.user = "yes"
            /\ AllConvert(input.entries, input.path.parent))
           => /\ ImportCompleted
              /\ Len(journal) = 2
              /\ journal[1].text = JoinedUpTo([k \in DOMAIN input.entries |-> EntryText(k)],
                                              Len(input.entries))

\* C19: missing media is non-fatal and counted.  Every media file an export
\* refers to that is not on the disk produces one warning, the count reported
\* is the number of the referred files that are on the disk, the import is not
\* aborted and the entries are converted and appended.
C19_MissingMediaCounted ==
    out.op = "import_"
    => MediaChecked(LAMBDA kind, media : ExportedFile(out.args.input.path.parent, kind, media))

\* The part of C19 that the code keeps: the same, the file of an item being the
\* path the check itself computes
C19_CheckedPathsCounted ==
    out.op = "import_"
    => MediaChecked(LAMBDA kind, media :
                       MediaCheckPath(out.args.input.path.parent, kind, media))

\* A tag written out with only its first character lower-cased and its spaces
\* removed, behind "#"
ExpectedTag(t) ==
    IF t = TagHiking THEN "#hiking"
    ELSE IF t = TagNewYork THEN "#newYork"
    ELSE IF t = TagSpaced THEN "#xy"
    ELSE IF t = <<>> THEN "#"
    ELSE "?"

\* The first n tags of the list in their order, a single space between two
RECURSIVE ExpectedTagsUpTo(_, _)
ExpectedTagsUpTo(tags, n) ==
    IF n = 1 THEN ExpectedTag(tags[1])
    ELSE ExpectedTagsUpTo(tags, n - 1) \o " " \o ExpectedTag(tags[n])

\* The tag string of the header of an entry
ExpectedTags(entry) ==
    IF "tags" \notin DOMAIN entry \/ entry.tags = <<>> THEN "#untagged"
    ELSE ExpectedTagsUpTo(entry.tags, Len(entry.tags))

\* No tag of the entry is the empty string
NoEmptyTag(entry) ==
    "tags" \in DOMAIN entry => \A i \in DOMAIN entry.tags : entry.tags[i] # <<>>

\* A step of import_ that converts entry imp.i, an entry with a creationDate
\* (and, unless every is set, without an empty tag), raises nothing and gives
\* the entry the header tag string of ExpectedTags
TagHeaderStep(every) ==
    (imp.pc = "convert" /\ imp' # imp)
    => LET entry == out.args.input.entries[imp.i]
       IN  ("creationDate" \in DOMAIN entry /\ (every \/ NoEmptyTag(entry)))
           => /\ out'.exc = "none"
              /\ Len(imp'.texts) = imp.i
              /\ imp'.texts[imp.i][5] = ExpectedTags(entry)
              /\ imp'.texts[imp.i][6] \in {" *", "\n"}

\* C20: tag header.  The tag string of a converted header is #untagged for an
\* entry without tags or with an empty tag list; otherwise the tags in their
\* order, each with only its first character lower-cased and its spaces
\* removed, prefixed with # and joined by single spaces; conversion fails for
\* no tag list.
C20_TagHeader == [][TagHeaderStep(TRUE)]_vars

\* The part of C20 that the code keeps: the same for the entries none of whose
\* tags is the empty string
C20_NonEmptyTags == [][TagHeaderStep(FALSE)]_vars

-----------------------------------------------------------------------------
(* Properties of the index build command and of the staleness decision      *)
(* (specification SpecImport)                                               *)

\* The index that import_ loaded is usable and its file records a time of
\* last modification later than the creation time of the export file
FreshIndex ==
    /\ idx.mode = ModeUSE
    /\ is_usable(idx, file)
    /\ FromIsoformatNaive(file.data.last_modified) > out.args.input.ctime

\* C21: a freshly built index does not look stale.  An import_ past its index
\* set-up, with a user who does not interrupt, over a usable index whose file
\* records a last modification later than the creation time of the export,
\* has issued neither the staleness warning nor the prompt and has gone on to
\* the entries: the decision is taken on the last_modified that was persisted,
\* so the set-up neither raises nor aborts.
C21_FreshIndexPasses ==
    (/\ out.op = "import_" /\ imp.pc # "index"
     /\ out.args.user \in {"yes", "no"}
     /\ FreshIndex)
    => /\ "IndexOutdated" \notin Texts(out.msgs)
       /\ "Continue" \notin Texts(out.msgs)
       /\ "ImportAborted" \notin Texts(out.msgs)
       /\ idx.last_modified = FromIsoformatNaive(file.data.last_modified)
       /\ out.exc \notin {"ValueError", "AttributeError"}

\* The part of C21 that the code keeps: no staleness warning and no prompt
C21_NoWarningNoPrompt ==
    (/\ out.op = "import_" /\ imp.pc # "index"
     /\ out.args.user \in {"yes", "no"}
     /\ FreshIndex)
    => /\ "IndexOutdated" \notin Texts(out.msgs)
       /\ "Continue" \notin Texts(out.msgs)

IndexStatusTexts == {"IndexCreated", "IndexUpdated", "IndexUpToDate"}

\* C22: the index build command reports consistently.  A run of
\* postconfig_index with an input file that returns emits at most one of
\* "created", "updated", "up to date", and the one it emits agrees with what
\* happened to the index: "up to date" only when no entry was added, "created"
\* only when the index was empty and now has entries, "updated" only when the
\* index had entries and gained some.
C22_ConsistentReport ==
    [][(/\ out'.op = "postconfig_index" /\ ~out'.args.clear
        /\ out'.args.input.kind = "export" /\ out'.exc = "none")
       => LET before == Cardinality(DOMAIN StoredEntries(file))
              after  == Cardinality(DOMAIN idx'.entries)
          IN  /\ Cardinality({i \in DOMAIN out'.msgs :
                                 out'.msgs[i].text \in IndexStatusTexts}) <= 1
              /\ "IndexUpToDate" \in Texts(out'.msgs)
                 => /\ after = before
                    /\ Texts(out'.msgs) \cap {"IndexCreated", "IndexUpdated"} = {}
              /\ "IndexCreated" \in Texts(out'.msgs) => (before = 0 /\ after > 0)
              /\ "IndexUpdated" \in Texts(out'.msgs) => (before > 0 /\ after > before)]_vars


-----------------------------------------------------------------------------
\* C23: in every run of postconfig_index with the clear flag, "IndexCleared"
\* is emitted only if the user confirmed and the entry mapping was reset and
\* persisted; when the user declines, the message is not emitted and the
\* index, in memory and on disk, is what it was.
C23_ClearedOnlyAfterClear ==
    [][(/\ out'.op = "postconfig_index"
        /\ out'.args.clear
        /\ out'.exc = "none")
       => /\ "IndexCleared" \in Texts(out'.msgs)
                => /\ Yesno(out'.args.answer, FALSE)
                   /\ DOMAIN idx'.entries = {}
                   /\ file' = SaveIndex(idx')
          /\ ~Yesno(out'.args.answer, FALSE)
                => /\ "IndexCleared" \notin Texts(out'.msgs)
                   /\ file' = file
                   /\ idx'.entries = NewIndex(file, ModeBUILD).idx.entries]_vars

\* The part of C23 that the code keeps: a declined clear leaves the index
\* file and the loaded entries as they were, and a confirmed one empties both
C23_ClearEffect ==
    [][(/\ out'.op = "postconfig_index"
        /\ out'.args.clear
        /\ out'.exc = "none")
       => IF Yesno(out'.args.answer, FALSE)
          THEN DOMAIN idx'.entries = {} /\ file' = SaveIndex(idx')
          ELSE file' = file /\ idx'.entries = NewIndex(file, ModeBUILD).idx.entries]_vars


-----------------------------------------------------------------------------
\* The media items of a converted entry whose moment URL stands in its body
\* text: <<k, n>> for item n of entry k, entry k having been converted
ReferredMedia ==
    {p \in (DOMAIN imp.texts) \X (1..3) :
        /\ p[1] \in DOMAIN out.args.input.entries
        /\ p[2] \in DOMAIN EntryMedia(out.args.input.entries[p[1]])
        /\ LET entry == out.args.input.entries[p[1]]
               item  == EntryMedia(entry)[p[2]]
           IN  \E i \in DOMAIN entry.text : entry.text[i] = MomentUrl(item.kind, item.media)}

\* The path the media check verified for item p stands in the converted text
\* of its entry
CheckedPathWritten(p) ==
    LET input == out.args.input
        item  == EntryMedia(input.entries[p[1]])[p[2]]
    IN  \E i \in DOMAIN imp.texts[p[1]] :
           imp.texts[p[1]][i] = MediaCheckPath(input.path.parent, item.kind, item.media)

\* C24: for every media item (photo, PDF attachment, audio) of every entry,
\* the path whose existence import_ verifies is the path that _convert writes
\* into the body text for that item, whatever the item's type or format.
C24_CheckedPathIsRewrittenPath ==
    out.op = "import_" => \A p \in ReferredMedia : CheckedPathWritten(p)

\* The part of C24 that the code keeps: the two paths agree for photos and for
\* PDF attachments whose type is pdf
C24_PhotoAndTypedPdfPaths ==
    out.op = "import_"
    => \A p \in ReferredMedia :
          LET item == EntryMedia(out.args.input.entries[p[1]])[p[2]]
          IN  (\/ item.kind = "photos"
               \/ (/\ item.kind = "pdfAttachments" /\ "type" \in DOMAIN item.media
                   /\ item.media.type = "pdf"))
              => CheckedPathWritten(p)

\* An audio item and a photo of one entry have both been converted
C24_MediaConverted ==
    /\ out.op = "import_"
    /\ \E p \in ReferredMedia : EntryMedia(out.args.input.entries[p[1]])[p[2]].kind = "audios"
    /\ \E p \in ReferredMedia : EntryMedia(out.args.input.entries[p[1]])[p[2]].kind = "photos"

=============================================================================
